---- MODULE Spec2Model ----
(***************************************************************************)
(* Texture Tool (EBonura/Texture-tool): the application state of           *)
(* src/texture_tool/state.py and the tree visibility rule of               *)
(* src/texture_tool/ui.py.                                                 *)
(*                                                                         *)
(* Strings are sequences of one-character strings, so that str.startswith, *)
(* str.split, os.path.join and sorted() are computed character by          *)
(* character as Python computes them.  The empty Python string is << >>.   *)
(***************************************************************************)
EXTENDS Integers, Sequences, FiniteSets, TLC

VARIABLES
    disk,                 \* the filesystem: existing directories and files
    file_items,           \* State.file_items
    expanded_folders,     \* State.expanded_folders
    selected_image,       \* State.selected_image
    selected_image_data,  \* State.selected_image_data
    image_format,         \* State.image_format
    image_resolution,     \* State.image_resolution
    image_file_size,      \* State.image_file_size
    texture_directory,    \* State.texture_directory
    image_width,          \* State.image_width
    image_height,         \* State.image_height
    directory_input,      \* State.directory_input
    resize_width,         \* State.resize_width
    resize_height,        \* State.resize_height
    color_depth,          \* State.color_depth
    dithering,            \* State.dithering
    processed_image_data, \* State.processed_image_data
    show_processed,       \* State.show_processed
    last,                 \* the last event handled and what it returned
    processed_from        \* the directory and the image that process_image
                          \* made processed_image_data from

vars == <<disk, file_items, expanded_folders, selected_image,
          selected_image_data, image_format, image_resolution,
          image_file_size, texture_directory, image_width, image_height,
          directory_input, resize_width, resize_height, color_depth,
          dithering, processed_image_data, show_processed, last,
          processed_from>>

treeVars == <<file_items, expanded_folders, texture_directory,
              directory_input>>
imageVars == <<selected_image, selected_image_data, image_format,
               image_resolution, image_file_size, image_width, image_height>>
processVars == <<resize_width, resize_height, color_depth, dithering,
                 processed_image_data, show_processed, processed_from>>

----------------------------------------------------------------------------
(* Bounds of the model.                                                    *)

\* Depth of the chain of nested folders /a, /a/a, ... on the modelled disk.
MaxDepth == 2

----------------------------------------------------------------------------
(* Characters and strings.                                                 *)

\* The characters that occur in the model, in code-point order.
Alphabet == <<" ", "-", ".", "/", "0", "1", "2", "6", "8", "B", "G", "J",
              "P", "a", "b", "c", "d", "f", "g", "j", "m", "n", "p", "t",
              "x", "z">>

OrdTable ==
    [c \in {Alphabet[i] : i \in 1..Len(Alphabet)} |->
        CHOOSE i \in 1..Len(Alphabet) : Alphabet[i] = c]

\* ord(c), up to an order-preserving renumbering.
Ord(c) == OrdTable[c]

\* str.lower on one character.
LowerChar(c) ==
    CASE c = "B" -> "b" [] c = "G" -> "g" [] c = "J" -> "j" [] c = "P" -> "p"
      [] OTHER -> c

lower(s) == [i \in 1..Len(s) |-> LowerChar(s[i])]

Min(a, b) == IF a < b THEN a ELSE b

\* s < t for Python strings: lexicographic on code points.
StrLess(s, t) ==
    \E i \in 1..(Min(Len(s), Len(t)) + 1) :
        /\ \A j \in 1..(i - 1) : s[j] = t[j]
        /\ \/ i > Len(s) /\ i <= Len(t)
           \/ i <= Len(s) /\ i <= Len(t) /\ Ord(s[i]) < Ord(t[i])

\* s.startswith(prefix)
startswith(s, prefix) ==
    /\ Len(prefix) <= Len(s)
    /\ SubSeq(s, 1, Len(prefix)) = prefix

\* s.rfind(c) + 1: the 1-based position of the last c in s, 0 if none.
RFind(s, c) ==
    IF \E i \in 1..Len(s) : s[i] = c
    THEN CHOOSE i \in 1..Len(s) : s[i] = c /\ \A j \in (i + 1)..Len(s) : s[j] # c
    ELSE 0

\* s.split(c) for a one-character separator.
RECURSIVE split(_, _)
split(s, c) ==
    IF \A i \in 1..Len(s) : s[i] # c
    THEN <<s>>
    ELSE LET i == CHOOSE k \in 1..Len(s) :
                      s[k] = c /\ \A j \in 1..(k - 1) : s[j] # c
         IN  <<SubSeq(s, 1, i - 1)>> \o split(SubSeq(s, i + 1, Len(s)), c)

\* c.join(parts)
RECURSIVE joinParts(_, _)
joinParts(parts, c) ==
    IF Len(parts) = 0 THEN << >>
    ELSE IF Len(parts) = 1 THEN parts[1]
    ELSE parts[1] \o <<c>> \o joinParts(Tail(parts), c)

\* s.strip() for blanks.
RECURSIVE strip(_)
strip(s) ==
    IF Len(s) > 0 /\ s[1] = " " THEN strip(Tail(s))
    ELSE IF Len(s) > 0 /\ s[Len(s)] = " " THEN strip(SubSeq(s, 1, Len(s) - 1))
    ELSE s

Range(s) == {s[i] : i \in 1..Len(s)}

\* x in list
Contains(s, x) == \E i \in 1..Len(s) : s[i] = x

----------------------------------------------------------------------------
(* Paths (os.path, pathlib).                                               *)

\* os.sep
sep == "/"

\* os.path.join(a, b)
path_join(a, b) ==
    IF Len(b) > 0 /\ b[1] = sep THEN b
    ELSE IF Len(a) = 0 \/ a[Len(a)] = sep THEN a \o b
    ELSE a \o <<sep>> \o b

\* str.rstrip("/")
RECURSIVE rstripSep(_)
rstripSep(s) ==
    IF Len(s) > 0 /\ s[Len(s)] = sep THEN rstripSep(SubSeq(s, 1, Len(s) - 1))
    ELSE s

\* os.path.dirname(p)
dirname(p) ==
    LET head == SubSeq(p, 1, RFind(p, sep))
    IN  IF Len(head) > 0 /\ \E i \in 1..Len(head) : head[i] # sep
        THEN rstripSep(head)
        ELSE head

\* os.path.basename(p)
basename(p) == SubSeq(p, RFind(p, sep) + 1, Len(p))

\* os.path.relpath(path, start) for a path that is start or lies below it.
relpath(path, start) ==
    IF path = start THEN <<".">>
    ELSE IF start = <<sep>> THEN Tail(path)
    ELSE SubSeq(path, Len(start) + 2, Len(path))

\* pathlib.Path(name).suffix
suffix(name) ==
    LET base == basename(name)
        i == RFind(base, ".")
    IN  IF 1 < i /\ i < Len(base) THEN SubSeq(base, i, Len(base)) ELSE << >>

----------------------------------------------------------------------------
(* The filesystem.  The root directory / holds a chain of nested folders    *)
(* /a, /a/a, ... (MaxDepth of them) and a folder /ab whose name has the     *)
(* name of its sibling a as a prefix.  A disk is any part of that world     *)
(* that is closed under parents.                                            *)

Root == <<sep>>

\* /a/a/.../a with k components
ChainDir(k) == [i \in 1..(2 * k) |-> IF i % 2 = 1 THEN sep ELSE "a"]

SiblingDir == <<sep, "a", "b">>

WorldDirs == {Root, SiblingDir} \cup {ChainDir(k) : k \in 1..MaxDepth}

c_png == <<"c", ".", "p", "n", "g">>
B_JPG == <<"B", ".", "J", "P", "G">>
n_txt == <<"n", ".", "t", "x", "t">>
d_png == <<"d", ".", "p", "n", "g">>

\* The names of the files the world holds in directory d.
WorldNames(d) ==
    IF d = Root THEN {c_png, B_JPG}
    ELSE IF d = SiblingDir THEN {n_txt}
    ELSE IF d = ChainDir(1) THEN {d_png, B_JPG}
    ELSE {d_png}

WorldFiles == UNION {{path_join(d, n) : n \in WorldNames(d)} : d \in WorldDirs}

\* os.path.exists / os.path.isdir
exists(dk, p) == p \in dk.dirs \/ p \in dk.files
isdir(dk, p) == p \in dk.dirs

ClosedDisk(dk) ==
    /\ Root \in dk.dirs
    /\ \A d \in dk.dirs : dirname(d) \in dk.dirs
    /\ \A f \in dk.files : dirname(f) \in dk.dirs

\* Every image file of the disk is of a single colour, derived from the
\* shade of the disk (FileContent below).
DefaultShade == 200

Disks == {dk \in [dirs : SUBSET WorldDirs, files : SUBSET WorldFiles,
                  shade : {DefaultShade}] : ClosedDisk(dk)}

FullDisk == [dirs |-> WorldDirs, files |-> WorldFiles, shade |-> DefaultShade]

\* d is top or lies below it.
RECURSIVE IsUnder(_, _)
IsUnder(d, top) ==
    \/ d = top
    \/ dirname(d) # d /\ IsUnder(dirname(d), top)

DirsUnder(dk, top) == {d \in dk.dirs : IsUnder(d, top)}

\* The orders in which os.walk (top-down) may yield the directories below
\* top: every directory after its parent, siblings in any order.  This
\* includes every depth-first pre-order.
RECURSIVE TopDown(_, _)
TopDown(visited, rest) ==
    IF rest = {} THEN {visited}
    ELSE UNION {TopDown(Append(visited, d), rest \ {d}) :
                   d \in {x \in rest : \E j \in 1..Len(visited) :
                                          visited[j] = dirname(x)}}

WalkOrders(dk, top) == TopDown(<<top>>, DirsUnder(dk, top) \ {top})

\* The orders in which a directory listing may come: by name ascending or
\* descending.
ListingOrders == {"ascending", "descending"}

\* The names of a set, as a sequence in the listing order.
RECURSIVE Listing(_, _)
Listing(names, lorder) ==
    IF names = {} THEN << >>
    ELSE LET first == CHOOSE x \in names :
                 \A y \in names \ {x} :
                     IF lorder = "ascending" THEN StrLess(x, y)
                     ELSE StrLess(y, x)
         IN  <<first>> \o Listing(names \ {first}, lorder)

\* The (root, dirs, files) triples os.walk yields, dirs left out (unused).
walk(dk, top, dorder, lorder) ==
    [i \in 1..Len(dorder) |->
        [root |-> dorder[i],
         files |-> Listing({basename(f) : f \in {g \in dk.files :
                                         dirname(g) = dorder[i]}}, lorder)]]

----------------------------------------------------------------------------
(* State.load_images                                                       *)

image_extensions ==
    {<<".", "p", "n", "g">>, <<".", "j", "p", "g">>,
     <<".", "j", "p", "e", "g">>, <<".", "b", "m", "p">>,
     <<".", "t", "g", "a">>, <<".", "w", "e", "b", "p">>,
     <<".", "e", "x", "r">>, <<".", "h", "d", "r">>}

FileItem(name, path, is_folder, level, parent) ==
    [name |-> name, path |-> path, is_folder |-> is_folder,
     level |-> level, parent |-> parent]

\* sorted(): a stable insertion sort of [key, val] pairs on key.
RECURSIVE InsertKeyed(_, _)
InsertKeyed(s, x) ==
    IF Len(s) = 0 THEN <<x>>
    ELSE IF StrLess(x.key, s[1].key) THEN <<x>> \o s
    ELSE <<s[1]>> \o InsertKeyed(Tail(s), x)

RECURSIVE SortKeyed(_)
SortKeyed(s) ==
    IF Len(s) = 0 THEN << >>
    ELSE InsertKeyed(SortKeyed(SubSeq(s, 1, Len(s) - 1)), s[Len(s)])

\* sorted(items, key=lambda x: x.name)
sorted_by_name(items) ==
    LET keyed == [i \in 1..Len(items) |->
                     [key |-> items[i].name, val |-> items[i]]]
        srt == SortKeyed(keyed)
    IN  [i \in 1..Len(srt) |-> srt[i].val]

\* sorted(folder_contents.items()): the entries in the order of their paths.
sorted_items(folder_contents) ==
    LET keyed == [i \in 1..Len(folder_contents) |->
                     [key |-> folder_contents[i].path,
                      val |-> folder_contents[i]]]
        srt == SortKeyed(keyed)
    IN  [i \in 1..Len(srt) |-> srt[i].val]

\* folder_path in folder_contents
HasFolder(folder_contents, folder_path) ==
    \E i \in 1..Len(folder_contents) : folder_contents[i].path = folder_path

\* Lines 186-200: one entry per part of relative_root not yet known.
RECURSIVE store_folders(_, _, _)
store_folders(folder_contents, parts, i) ==
    IF i >= Len(parts) THEN folder_contents
    ELSE LET folder_path == joinParts(SubSeq(parts, 1, i + 1), sep)
             parent == IF i > 0 THEN joinParts(SubSeq(parts, 1, i), sep)
                       ELSE << >>
             entry == [path |-> folder_path,
                       item |-> FileItem(parts[i + 1], folder_path, TRUE, i,
                                         parent),
                       children |-> << >>]
         IN  store_folders(
                 IF HasFolder(folder_contents, folder_path)
                 THEN folder_contents
                 ELSE Append(folder_contents, entry),
                 parts, i + 1)

\* Lines 203-214: the image files of one directory, in listing order.
collect_image_files(files, relative_root) ==
    LET keep == SelectSeq(files,
                    LAMBDA file : lower(suffix(file)) \in image_extensions)
        level == IF Len(relative_root) > 0
                 THEN Len(split(relative_root, sep)) ELSE 0
    IN  [k \in 1..Len(keep) |->
            FileItem(keep[k],
                     IF Len(relative_root) > 0
                     THEN path_join(relative_root, keep[k]) ELSE keep[k],
                     FALSE, level, relative_root)]

\* Lines 178-221: the loop over os.walk; acc is [items, folder_contents].
RECURSIVE walk_loop(_, _, _, _)
walk_loop(visits, k, top, acc) ==
    IF k > Len(visits) THEN acc
    ELSE
      LET rel == relpath(visits[k].root, top)
          relative_root == IF rel = <<".">> THEN << >> ELSE rel
          fc1 == IF Len(relative_root) > 0
                 THEN store_folders(acc.folder_contents,
                                    split(relative_root, sep), 0)
                 ELSE acc.folder_contents
          image_files == collect_image_files(visits[k].files, relative_root)
          fc2 == IF Len(relative_root) > 0 /\ HasFolder(fc1, relative_root)
                 THEN [i \in 1..Len(fc1) |->
                          IF fc1[i].path = relative_root
                          THEN [fc1[i] EXCEPT
                                   !.children = @ \o image_files]
                          ELSE fc1[i]]
                 ELSE fc1
          items1 == IF Len(relative_root) = 0
                    THEN acc.items \o sorted_by_name(image_files)
                    ELSE acc.items
      IN  walk_loop(visits, k + 1, top,
                    [items |-> items1, folder_contents |-> fc2])

\* A scan that appends the files of a folder in the order of the listing.
folder_children_unsorted(folder_data) == folder_data.children

\* Lines 227-228: the files of a folder, as they are appended.
folder_children(folder_data) == sorted_by_name(folder_data.children)

RECURSIVE add_folder_and_children(_, _, _)
RECURSIVE add_subfolders(_, _, _, _)

\* A scan that appends the folder after its files.
add_folder_after_children(folder_path, folder_data, folder_contents) ==
    folder_children(folder_data)
        \o <<folder_data.item>>
        \o add_subfolders(sorted_items(folder_contents), 1, folder_path,
                          folder_contents)

\* Lines 224-232: add_folder_and_children, as the items it appends.
add_folder_and_children(folder_path, folder_data, folder_contents) ==
    <<folder_data.item>>
        \o folder_children(folder_data)
        \o add_subfolders(sorted_items(folder_contents), 1, folder_path,
                          folder_contents)

\* Lines 230-232 and 235-237: the loop over sorted(folder_contents.items())
\* that adds the folders whose parent is `parent`.
add_subfolders(srt, i, parent, folder_contents) ==
    IF i > Len(srt) THEN << >>
    ELSE (IF srt[i].item.parent = parent
          THEN add_folder_and_children(srt[i].path, srt[i], folder_contents)
          ELSE << >>)
         \o add_subfolders(srt, i + 1, parent, folder_contents)

\* State.load_images: the new file_items, for one order of the walk.
load_images_result(dk, top, dorder, lorder) ==
    IF ~exists(dk, top) THEN << >>
    ELSE LET acc == walk_loop(walk(dk, top, dorder, lorder), 1, top,
                              [items |-> << >>, folder_contents |-> << >>])
         IN  acc.items \o add_subfolders(sorted_items(acc.folder_contents),
                                         1, << >>, acc.folder_contents)

----------------------------------------------------------------------------
(* The state after construction (state.py lines 23-43).                    *)

\* The configured default of texture_directory.
DefaultDirectory == ChainDir(1)

None == "None"
Alert == "window_alert"

\* The record of a handled event: the handler, its argument, what it
\* returned.  For toggle_folder it also keeps expanded_folders as it was
\* before the call (before) and, when the event before it was toggle_folder
\* on the same path (twice), as it was before that one (prior).
\* exc names the step whose exception the handler caught ("" if none).
Caught(op, arg, ret, exc) ==
    [op |-> op, arg |-> arg, ret |-> ret, exc |-> exc,
     before |-> << >>, twice |-> FALSE, prior |-> << >>]

Handled(op, arg, ret) == Caught(op, arg, ret, "")

StateDefaults ==
    /\ file_items = << >>
    /\ expanded_folders = << >>
    /\ selected_image = << >>
    /\ selected_image_data = << >>
    /\ image_format = << >>
    /\ image_resolution = << >>
    /\ image_file_size = << >>
    /\ texture_directory = DefaultDirectory
    /\ image_width = 0
    /\ image_height = 0
    /\ directory_input = << >>
    /\ resize_width = 128
    /\ resize_height = 128
    /\ color_depth = 16
    /\ dithering = TRUE
    /\ processed_image_data = << >>
    /\ show_processed = FALSE
    /\ last = Handled("init", << >>, None)
    /\ processed_from = <<<< >>, << >>>>

----------------------------------------------------------------------------
(* The directory tree: load_images, update_directory, go_up_directory.     *)

\* What the user may type into the directory field: a directory padded with
\* blanks, a path that does not exist, a path that is a file.
DirectoryInputs ==
    {<<" ", sep, "a", "b", " ">>, <<sep, "z", "z">>, path_join(Root, c_png)}

\* The orders of one walk of texture directory top.
Walks(dk, top) ==
    IF exists(dk, top) THEN WalkOrders(dk, top) \X ListingOrders
    ELSE {<<<< >>, "ascending">>}

\* State.load_images (lines 165-239)
load_images ==
    \E w \in Walks(disk, texture_directory) :
        /\ file_items' = load_images_result(disk, texture_directory,
                                            w[1], w[2])
        /\ last' = Handled("load_images", << >>, None)
        /\ UNCHANGED <<disk, expanded_folders, texture_directory,
                       directory_input, imageVars, processVars>>

\* State.on_load (lines 133-136)
on_load ==
    \E w \in Walks(disk, texture_directory) :
        /\ directory_input' = texture_directory
        /\ file_items' = load_images_result(disk, texture_directory,
                                            w[1], w[2])
        /\ last' = Handled("on_load", << >>, None)
        /\ UNCHANGED <<disk, expanded_folders, texture_directory,
                       imageVars, processVars>>

\* The setter of directory_input (ui.py line 201, on_change).
set_directory_input(value) ==
    /\ directory_input' = value
    /\ last' = Handled("set_directory_input", value, None)
    /\ UNCHANGED <<disk, file_items, expanded_folders, texture_directory,
                   imageVars, processVars>>

\* State.update_directory (lines 138-149)
update_directory ==
    LET new_directory == strip(directory_input)
    IN  IF exists(disk, new_directory) /\ isdir(disk, new_directory)
        THEN \E w \in Walks(disk, new_directory) :
               /\ texture_directory' = new_directory
               /\ selected_image' = << >>
               /\ selected_image_data' = << >>
               /\ file_items' = load_images_result(disk, new_directory,
                                                   w[1], w[2])
               /\ last' = Handled("update_directory", new_directory, None)
               /\ UNCHANGED <<disk, expanded_folders, directory_input,
                              image_format, image_resolution,
                              image_file_size, image_width, image_height,
                              processVars>>
        ELSE /\ last' = Handled("update_directory", new_directory, Alert)
             /\ UNCHANGED <<disk, treeVars, imageVars, processVars>>

\* State.go_up_directory (lines 151-163)
go_up_directory ==
    LET parent_dir == dirname(texture_directory)
    IN  IF Len(parent_dir) > 0 /\ parent_dir # texture_directory
        THEN \E w \in Walks(disk, parent_dir) :
               /\ texture_directory' = parent_dir
               /\ directory_input' = parent_dir
               /\ selected_image' = << >>
               /\ selected_image_data' = << >>
               /\ file_items' = load_images_result(disk, parent_dir,
                                                   w[1], w[2])
               /\ last' = Handled("go_up_directory", parent_dir, None)
               /\ UNCHANGED <<disk, expanded_folders, image_format,
                              image_resolution, image_file_size,
                              image_width, image_height, processVars>>
        ELSE /\ last' = Handled("go_up_directory", parent_dir, Alert)
             /\ UNCHANGED <<disk, treeVars, imageVars, processVars>>

----------------------------------------------------------------------------
(* Folder expansion: toggle_folder and the visibility rule of the tree.    *)

\* A toggle_folder that tests the prefix without the separator.
toggle_folder_prefix(expanded, folder_path) ==
    IF Contains(expanded, folder_path)
    THEN SelectSeq(expanded,
             LAMBDA f : f # folder_path /\ ~startswith(f, folder_path))
    ELSE expanded \o <<folder_path>>

\* A toggle_folder that collapses the folder alone.
toggle_folder_shallow(expanded, folder_path) ==
    IF Contains(expanded, folder_path)
    THEN SelectSeq(expanded, LAMBDA f : f # folder_path)
    ELSE expanded \o <<folder_path>>

\* State.toggle_folder (lines 241-251): the new expanded_folders.
toggle_folder_result(expanded, folder_path) ==
    IF Contains(expanded, folder_path)
    THEN SelectSeq(expanded,
             LAMBDA f : f # folder_path
                        /\ ~startswith(f, folder_path \o <<sep>>))
    ELSE expanded \o <<folder_path>>

\* is_item_visible (ui.py lines 7-15)
is_item_visible(item, expanded) ==
    IF item.parent = << >> THEN TRUE ELSE Contains(expanded, item.parent)

\* tree_item under rx.foreach (ui.py lines 62-72, 79-82): the items rendered.
shown_items(items, expanded) ==
    SelectSeq(items, LAMBDA item : is_item_visible(item, expanded))

\* The paths of the folder buttons of the list (ui.py line 32).
FolderPaths(items) ==
    {items[i].path : i \in {k \in 1..Len(items) : items[k].is_folder}}

\* State.toggle_folder as an event.
toggle_folder(folder_path) ==
    /\ expanded_folders' = toggle_folder_result(expanded_folders, folder_path)
    /\ last' = [op |-> "toggle_folder",
                arg |-> folder_path,
                exc |-> "",
                ret |-> IF Contains(expanded_folders, folder_path)
                        THEN "collapsed" ELSE "expanded",
                before |-> expanded_folders,
                twice |-> last.op = "toggle_folder" /\ last.arg = folder_path,
                prior |-> IF last.op = "toggle_folder"
                             /\ last.arg = folder_path
                          THEN last.before ELSE << >>]
    /\ UNCHANGED <<disk, file_items, texture_directory, directory_input,
                   imageVars, processVars>>

\* The paths of the folder buttons the tree shows.
ShownFolderPaths(items, expanded) == FolderPaths(shown_items(items, expanded))

----------------------------------------------------------------------------
(* The environment: the filesystem changes under the application.          *)

\* A directory is removed with all it holds.
remove_tree(d) ==
    /\ d \in disk.dirs
    /\ d # Root
    /\ disk' = [disk EXCEPT !.dirs = {x \in disk.dirs : ~IsUnder(x, d)},
                            !.files = {f \in disk.files : ~IsUnder(f, d)}]
    /\ last' = Handled("remove_tree", d, None)
    /\ UNCHANGED <<treeVars, imageVars, processVars>>

----------------------------------------------------------------------------
(* Image files and the operations of PIL on them.  An image is             *)
(* [mode, width, height, pixel, palette]; every image of the disk is of a  *)
(* single colour, so pixel is the value of each of its pixels (the index   *)
(* into palette in mode P), and resampling (nearest or bilinear) keeps it. *)

KB == 1024

rgb_of(shade) == <<shade, (shade + 85) % 256, (shade + 170) % 256>>

PNG == <<"P", "N", "G">>
JPEG == <<"J", "P", "E", "G">>

\* What file p holds: /a/B.JPG a greyscale image, /a/d.png an RGBA image,
\* the d.png of the deeper folders bytes no decoder accepts, /c.png and
\* /B.JPG RGB images, n.txt text.
FileContent(p, shade) ==
    LET Img(mode, w, h, px) ==
            [mode |-> mode, width |-> w, height |-> h, pixel |-> px,
             palette |-> << >>]
        File(dec, fmt, size, img) ==
            [decodable |-> dec, format |-> fmt, size |-> size, image |-> img]
    IN  IF p = path_join(ChainDir(1), B_JPG)
          THEN File(TRUE, JPEG, 2 * KB, Img("L", 4, 2, <<shade>>))
        ELSE IF p = path_join(ChainDir(1), d_png)
          THEN File(TRUE, PNG, 5 * KB * KB,
                    Img("RGBA", 2, 4,
                        rgb_of(shade) \o <<(shade * 3 + 1) % 256>>))
        ELSE IF p = path_join(Root, c_png)
          THEN File(TRUE, PNG, 512, Img("RGB", 2, 2, rgb_of(shade)))
        ELSE IF p = path_join(Root, B_JPG)
          THEN File(TRUE, JPEG, 1536 + 51,
                    Img("RGB", 4, 4, rgb_of(255 - shade)))
        ELSE File(FALSE, << >>, 7, Img("", 0, 0, << >>))

\* Image.open(full_path): fails on a missing or undecodable file.
Image_open(dk, full_path) ==
    LET c == FileContent(full_path, dk.shade)
    IN  IF full_path \in dk.files /\ c.decodable
        THEN [ok |-> TRUE, img |-> c.image, format |-> c.format]
        ELSE [ok |-> FALSE, img |-> c.image, format |-> << >>]

\* img.convert('RGB')
convert_RGB(img) ==
    [img EXCEPT
        !.mode = "RGB",
        !.palette = << >>,
        !.pixel = CASE img.mode = "L" -> <<@[1], @[1], @[1]>>
                    [] img.mode = "RGBA" -> SubSeq(@, 1, 3)
                    [] img.mode = "P" -> SubSeq(img.palette[@[1] + 1], 1, 3)
                    [] OTHER -> @]

\* A resize that accepts any size.
resize_unchecked(img, w, h) ==
    [ok |-> TRUE, img |-> [img EXCEPT !.width = w, !.height = h]]

\* img.resize((w, h), resample): Pillow raises ValueError ("height and
\* width must be > 0") for a size below 1.
resize(img, w, h) ==
    IF w < 1 \/ h < 1 THEN [ok |-> FALSE, img |-> img]
    ELSE [ok |-> TRUE, img |-> [img EXCEPT !.width = w, !.height = h]]

\* img.convert('P', palette=Image.ADAPTIVE, colors=n): an image of one
\* colour gets a palette of that colour (an RGBA image keeps alpha there).
convert_P_adaptive(img, colors) ==
    [img EXCEPT !.mode = "P", !.palette = <<img.pixel>>, !.pixel = <<0>>]

shr(x, n) == x \div (2 ^ n)
shl(x, n) == x * (2 ^ n)

\* A 16-bit reduction that keeps 6 bits of red.
quantize_16_red6(px) ==
    <<shl(shr(px[1], 2), 2), shl(shr(px[2], 2), 2), shl(shr(px[3], 3), 3)>>

\* Lines 77-82: one pixel of the 16-bit branch.
quantize_16(px) ==
    <<shl(shr(px[1], 3), 3), shl(shr(px[2], 2), 2), shl(shr(px[3], 3), 3)>>

\* Lines 70-92: the colour depth reduction.
reduce_color_depth(resized, depth, dither) ==
    IF depth = 16
    THEN LET rgb == convert_RGB(resized)
         IN  [rgb EXCEPT !.pixel = quantize_16(@)]
    ELSE IF depth = 8
    THEN LET pal == convert_P_adaptive(resized, 256)
         IN  IF dither THEN convert_RGB(pal) ELSE pal
    ELSE IF depth = 4
    THEN LET pal == convert_P_adaptive(resized, 16)
         IN  IF dither THEN convert_RGB(pal) ELSE pal
    ELSE resized

png_data_uri == "data:image/png;base64,"

AlertSelect == "window_alert: Please select an image first"
AlertError == "window_alert: Error processing image"

\* State.process_image (lines 45-103): what it returns and the new
\* processed_image_data and show_processed.
process_image_result(dk, dir, selected, w, h, depth, dither, data, show) ==
    LET Fail(ret, exc) == [ret |-> ret, exc |-> exc,
                           processed_image_data |-> data,
                           show_processed |-> show]
        opened == Image_open(dk, path_join(dir, selected))
        img == IF opened.img.mode \notin {"RGB", "RGBA"}
               THEN convert_RGB(opened.img) ELSE opened.img
        resized == resize(img, w, h)
    IN  IF selected = << >> THEN Fail(AlertSelect, "")
        ELSE IF ~opened.ok THEN Fail(AlertError, "Image.open")
        ELSE IF ~resized.ok THEN Fail(AlertError, "resize")
        ELSE [ret |-> None, exc |-> "",
              processed_image_data |->
                  <<png_data_uri,
                    reduce_color_depth(resized.img, depth, dither)>>,
              show_processed |-> TRUE]

process_image ==
    LET r == process_image_result(disk, texture_directory, selected_image,
                                  resize_width, resize_height, color_depth,
                                  dithering, processed_image_data,
                                  show_processed)
    IN  /\ processed_image_data' = r.processed_image_data
        /\ show_processed' = r.show_processed
        /\ last' = Caught("process_image", selected_image, r.ret, r.exc)
        /\ processed_from' = IF r.ret = None
                              THEN <<texture_directory, selected_image>>
                              ELSE processed_from
        /\ UNCHANGED <<disk, treeVars, imageVars, resize_width,
                       resize_height, color_depth, dithering>>

\* s contains sub
Substring(sub, s) ==
    \E i \in 1..(Len(s) - Len(sub) + 1) :
        SubSeq(s, i, i + Len(sub) - 1) = sub

\* The values of the colour depth radio group.
DepthInputs ==
    {<<"4", "-", "b", "i", "t">>, <<"8", "-", "b", "i", "t">>,
     <<"1", "6", "-", "b", "i", "t", " ", "(", "P", "S", "1", " ", "n", "a",
       "t", "i", "v", "e", ")">>}

\* State.set_color_depth_from_string (lines 105-112)
set_color_depth_from_string(value) ==
    /\ color_depth' = IF Substring(<<"4", "-", "b", "i", "t">>, value) THEN 4
                      ELSE IF Substring(<<"8", "-", "b", "i", "t">>, value)
                      THEN 8
                      ELSE 16
    /\ last' = Handled("set_color_depth_from_string", << >>, None)
    /\ UNCHANGED <<disk, treeVars, imageVars, resize_width, resize_height,
                   dithering, processed_image_data, show_processed,
                   processed_from>>

Digits == <<"0", "1", "2", "3", "4", "5", "6", "7", "8", "9">>
IsDigit(c) == \E i \in 1..10 : Digits[i] = c
DigitValue(c) == (CHOOSE i \in 1..10 : Digits[i] = c) - 1

RECURSIVE DecimalValue(_)
DecimalValue(s) ==
    IF Len(s) = 0 THEN 0
    ELSE 10 * DecimalValue(SubSeq(s, 1, Len(s) - 1)) + DigitValue(s[Len(s)])

\* int(value): blanks around, an optional sign, decimal digits; anything
\* else is a ValueError.
int(value) ==
    LET t == strip(value)
        signed == Len(t) > 0 /\ t[1] \in {"-", "+"}
        digits == IF signed THEN Tail(t) ELSE t
    IN  IF Len(digits) > 0 /\ \A i \in 1..Len(digits) : IsDigit(digits[i])
        THEN [ok |-> TRUE,
              value |-> IF signed /\ t[1] = "-" THEN 0 - DecimalValue(digits)
                        ELSE DecimalValue(digits)]
        ELSE [ok |-> FALSE, value |-> 0]

\* Lines 116-119 and 123-126: int(value), 128 on ValueError.
int_or_default(value) == IF int(value).ok THEN int(value).value ELSE 128

\* What the user may type into the width field.
WidthInputs == {<<"6", "4">>, <<"0">>, <<"-", "8">>, <<"x">>}

\* What the user may type into the height field.
HeightInputs == {<<" ", "0">>, << >>}

\* State.set_resize_width_from_string (lines 114-119)
set_resize_width_from_string(value) ==
    /\ resize_width' = int_or_default(value)
    /\ last' = Handled("set_resize_width_from_string", << >>, None)
    /\ UNCHANGED <<disk, treeVars, imageVars, resize_height, color_depth,
                   dithering, processed_image_data, show_processed,
                   processed_from>>

\* State.set_resize_height_from_string (lines 121-126)
set_resize_height_from_string(value) ==
    /\ resize_height' = int_or_default(value)
    /\ last' = Handled("set_resize_height_from_string", << >>, None)
    /\ UNCHANGED <<disk, treeVars, imageVars, resize_width, color_depth,
                   dithering, processed_image_data, show_processed,
                   processed_from>>

\* The setter of dithering (the field of line 41).
set_dithering(value) ==
    /\ dithering' = value
    /\ last' = Handled("set_dithering", << >>, None)
    /\ UNCHANGED <<disk, treeVars, imageVars, resize_width, resize_height,
                   color_depth, processed_image_data, show_processed,
                   processed_from>>

\* State.toggle_preview (lines 128-131)
toggle_preview ==
    /\ show_processed' = IF processed_image_data # << >>
                         THEN ~show_processed ELSE show_processed
    /\ last' = Handled("toggle_preview", << >>, None)
    /\ UNCHANGED <<disk, treeVars, imageVars, resize_width, resize_height,
                   color_depth, dithering, processed_image_data,
                   processed_from>>

----------------------------------------------------------------------------
(* State.select_image                                                      *)

\* f"{x:.1f}" of size / unit, in tenths: the exact quotient rounded to one
\* decimal, ties to even.
one_decimal(size, unit) ==
    LET q == (size * 10) \div unit
        r == (size * 10) % unit
    IN  IF 2 * r > unit THEN q + 1
        ELSE IF 2 * r = unit THEN q + (q % 2)
        ELSE q

\* Lines 262-267: the size as <<number, unit>>, KB and MB in tenths.
format_file_size(file_size) ==
    IF file_size < 1024 THEN <<file_size, " B">>
    ELSE IF file_size < 1024 * 1024 THEN <<one_decimal(file_size, 1024), " KB">>
    ELSE <<one_decimal(file_size, 1024 * 1024), " MB">>

\* Lines 280-290: the MIME type of the extension.
mime_type(image_path) ==
    LET ext == lower(suffix(image_path))
    IN  IF ext \in {<<".", "j", "p", "g">>, <<".", "j", "p", "e", "g">>}
        THEN "image/jpeg"
        ELSE IF ext = <<".", "p", "n", "g">> THEN "image/png"
        ELSE IF ext = <<".", "b", "m", "p">> THEN "image/bmp"
        ELSE IF ext = <<".", "w", "e", "b", "p">> THEN "image/webp"
        ELSE "image/png"

\* The fields select_image writes.
ImageFields(data, format, resolution, file_size, width, height) ==
    [selected_image_data |-> data, image_format |-> format,
     image_resolution |-> resolution, image_file_size |-> file_size,
     image_width |-> width, image_height |-> height]

\* The moments at which the file may vanish during select_image: not at
\* all, before Image.open, before open().
Vanish == {"never", "Image.open", "open"}

\* Lines 259-292: the body of try, up to the step that raises; old are the
\* fields before the call, exc the step that raised ("" if none).
select_image_try(dk, full_path, image_path, old, vanish) ==
    LET c == FileContent(full_path, dk.shade)
        f1 == [old EXCEPT !.image_file_size = format_file_size(c.size)]
        f2 == [f1 EXCEPT
                  !.image_format = c.format,
                  !.image_resolution = <<c.image.width, "x", c.image.height>>,
                  !.image_width = c.image.width,
                  !.image_height = c.image.height]
        f3 == [f2 EXCEPT
                  !.selected_image_data =
                      <<mime_type(image_path),
                        [file |-> full_path, shade |-> dk.shade]>>]
    IN  IF full_path \notin dk.files THEN [exc |-> "getsize", fields |-> old]
        ELSE IF vanish = "Image.open" \/ ~c.decodable
        THEN [exc |-> "Image.open", fields |-> f1]
        ELSE IF vanish = "open" THEN [exc |-> "open", fields |-> f2]
        ELSE [exc |-> "", fields |-> f3]

\* An except clause that clears the image data alone.
select_image_except_data_only(fields) ==
    [fields EXCEPT !.selected_image_data = << >>]

\* Lines 293-300: the except clause.
select_image_except(fields) == ImageFields(<< >>, << >>, << >>, << >>, 0, 0)

\* State.select_image (lines 253-300)
select_image(image_path, vanish) ==
    LET full_path == path_join(texture_directory, image_path)
        old == ImageFields(selected_image_data, image_format,
                           image_resolution, image_file_size, image_width,
                           image_height)
        try == select_image_try(disk, full_path, image_path, old, vanish)
        new == IF try.exc # "" THEN select_image_except(try.fields)
               ELSE try.fields
    IN  /\ selected_image' = image_path
        /\ selected_image_data' = new.selected_image_data
        /\ image_format' = new.image_format
        /\ image_resolution' = new.image_resolution
        /\ image_file_size' = new.image_file_size
        /\ image_width' = new.image_width
        /\ image_height' = new.image_height
        /\ disk' = IF vanish # "never"
                   THEN [disk EXCEPT !.files = @ \ {full_path}] ELSE disk
        /\ last' = Caught("select_image", image_path, None, try.exc)
        /\ UNCHANGED <<treeVars, processVars>>

\* The paths of the file buttons of the list (ui.py line 52).
FilePaths(items) ==
    {items[i].path : i \in {k \in 1..Len(items) : ~items[k].is_folder}}

\* A file is deleted.
unlink(f) ==
    /\ f \in disk.files
    /\ disk' = [disk EXCEPT !.files = @ \ {f}]
    /\ last' = Handled("unlink", f, None)
    /\ UNCHANGED <<treeVars, imageVars, processVars>>

----------------------------------------------------------------------------
(* Specifications.  Spec at the end of this section has every handler and  *)
(* every change of the filesystem; the others are its slices, each with    *)
(* the handlers that write the variables its properties read.              *)

\* The tree is scanned on any disk; nothing is expanded.
InitScan == StateDefaults /\ disk \in Disks

NextScan ==
    \/ load_images
    \/ on_load
    \/ \E value \in DirectoryInputs : set_directory_input(value)
    \/ update_directory
    \/ go_up_directory

SpecScan == InitScan /\ [][NextScan]_vars

\* The tree is browsed: any folder button of the list may be toggled, also
\* one that a later render hides (the event of a click is queued behind the
\* event that hides it).
InitTree == StateDefaults /\ disk = FullDisk

NextTree ==
    \/ load_images
    \/ on_load
    \/ \E value \in DirectoryInputs : set_directory_input(value)
    \/ update_directory
    \/ go_up_directory
    \/ \E p \in FolderPaths(file_items) : toggle_folder(p)
    \/ \E d \in WorldDirs : remove_tree(d)

SpecTree == InitTree /\ [][NextTree]_vars

\* The tree is browsed through the rendered page alone: only the folder
\* buttons that are shown are toggled.
NextUI ==
    \/ load_images
    \/ on_load
    \/ \E value \in DirectoryInputs : set_directory_input(value)
    \/ update_directory
    \/ go_up_directory
    \/ \E p \in ShownFolderPaths(file_items, expanded_folders) :
           toggle_folder(p)
    \/ \E d \in WorldDirs : remove_tree(d)

SpecUI == InitTree /\ [][NextUI]_vars

\* Images are selected while the files of the list vanish.
NextSelect ==
    \/ on_load
    \/ \E p \in FilePaths(file_items), v \in Vanish : select_image(p, v)
    \/ \E p \in FilePaths(file_items) :
           unlink(path_join(texture_directory, p))

SpecSelect == InitTree /\ [][NextSelect]_vars

\* Images are selected and processed under every setting.
NextProcess ==
    \/ on_load
    \/ \E p \in FilePaths(file_items) : select_image(p, "never")
    \/ \E value \in WidthInputs : set_resize_width_from_string(value)
    \/ \E value \in HeightInputs : set_resize_height_from_string(value)
    \/ \E value \in DepthInputs : set_color_depth_from_string(value)
    \/ \E value \in BOOLEAN : set_dithering(value)
    \/ process_image
    \/ toggle_preview

SpecProcess == InitTree /\ [][NextProcess]_vars

\* Images of every shade are processed under the default settings.
InitPixel ==
    /\ StateDefaults
    /\ \E shade \in 0..255 : disk = [FullDisk EXCEPT !.shade = shade]

NextPixel ==
    \/ on_load
    \/ \E p \in FilePaths(file_items) : select_image(p, "never")
    \/ process_image

SpecPixel == InitPixel /\ [][NextPixel]_vars

\* Every handler and every change of the filesystem.
Init == InitTree

Next ==
    \/ load_images
    \/ on_load
    \/ \E value \in DirectoryInputs : set_directory_input(value)
    \/ update_directory
    \/ go_up_directory
    \/ \E p \in FolderPaths(file_items) : toggle_folder(p)
    \/ \E p \in FilePaths(file_items), v \in Vanish : select_image(p, v)
    \/ \E value \in WidthInputs : set_resize_width_from_string(value)
    \/ \E value \in HeightInputs : set_resize_height_from_string(value)
    \/ \E value \in DepthInputs : set_color_depth_from_string(value)
    \/ \E value \in BOOLEAN : set_dithering(value)
    \/ process_image
    \/ toggle_preview
    \/ \E d \in WorldDirs : remove_tree(d)
    \/ \E f \in disk.files : unlink(f)

Spec == Init /\ [][Next]_vars

----------------------------------------------------------------------------
(* Properties of the scan.                                                 *)

\* The handlers that end with a scan of texture_directory.
Scanned ==
    /\ last.op \in {"load_images", "on_load", "update_directory",
                    "go_up_directory"}
    /\ last.ret = None

\* C4: in the node sequence of load_images every node with a non-empty
\* parent has exactly one Folder node whose path is that parent, and that
\* Folder node stands strictly earlier in the sequence, whatever the order
\* of the walk.
C4_ParentsPrecede ==
    \A i \in 1..Len(file_items) :
        file_items[i].parent # << >> =>
            LET Folders == {j \in 1..Len(file_items) :
                               /\ file_items[j].is_folder
                               /\ file_items[j].path = file_items[i].parent}
            IN  /\ Cardinality(Folders) = 1
                /\ \A j \in Folders : j < i

\* A scan has listed a file two folders deep.
C4_Witness ==
    /\ Scanned
    /\ \E i \in 1..Len(file_items) :
           ~file_items[i].is_folder /\ file_items[i].level = 2

\* The one sequence that holds the members of S in increasing order of Key.
InOrder(S, Key(_)) ==
    CHOOSE q \in [1..Cardinality(S) -> S] :
        \A i, j \in 1..Cardinality(S) : i < j => StrLess(Key(q[i]), Key(q[j]))

RECURSIVE Flatten(_)
Flatten(seqs) ==
    IF Len(seqs) = 0 THEN << >> ELSE seqs[1] \o Flatten(Tail(seqs))

IsImageName(name) == lower(suffix(name)) \in image_extensions

\* Number of folders between directory d and the scanned directory top.
RECURSIVE Depth(_, _)
Depth(d, top) == IF d = top THEN 0 ELSE 1 + Depth(dirname(d), top)

RelativeTo(p, top) == LET r == relpath(p, top) IN IF r = <<".">> THEN << >> ELSE r

\* The nodes of directory d in the order the specification asks for: its
\* image files by name, then its subfolders by name, each followed by its
\* own nodes.
RECURSIVE PreOrder(_, _, _)
PreOrder(dk, top, d) ==
    LET files == InOrder({f \in dk.files :
                             dirname(f) = d /\ IsImageName(basename(f))},
                         basename)
        subs == InOrder({x \in dk.dirs : x # d /\ dirname(x) = d}, basename)
    IN  [i \in 1..Len(files) |->
            FileItem(basename(files[i]), RelativeTo(files[i], top), FALSE,
                     Depth(d, top), RelativeTo(d, top))]
        \o Flatten([i \in 1..Len(subs) |->
                      <<FileItem(basename(subs[i]), RelativeTo(subs[i], top),
                                 TRUE, Depth(d, top), RelativeTo(d, top))>>
                          \o PreOrder(dk, top, subs[i])])

\* C5: for any directory tree and any order of the walk, load_images gives
\* the root-level image files sorted by name, then the root-level folders in
\* sorted order, each followed by its image files sorted by name and then by
\* its subfolders, recursively; so every scan of an unchanged tree gives the
\* same sequence.
C5_ScanOrder ==
    (Scanned /\ exists(disk, texture_directory)) =>
        file_items = PreOrder(disk, texture_directory, texture_directory)

\* The whole world has been scanned from its root.
C5_Witness ==
    /\ Scanned
    /\ texture_directory = Root
    /\ disk = FullDisk
    /\ Len(file_items) >= 8

----------------------------------------------------------------------------
(* Properties of the expansion state.                                      *)

\* f lies strictly below folder p: the components of p are a proper prefix
\* of the components of f.
StrictDescendant(f, p) ==
    LET fp == split(f, sep)
        pp == split(p, sep)
    IN  Len(fp) > Len(pp) /\ SubSeq(fp, 1, Len(pp)) = pp

\* The folders on the path from the root to path p, p itself left out.
Ancestors(p) ==
    LET parts == split(p, sep)
    IN  {joinParts(SubSeq(parts, 1, k), sep) : k \in 1..(Len(parts) - 1)}

\* Every ancestor folder of the item is expanded.
AncestorsExpanded(item, expanded) ==
    \A g \in Ancestors(item.path) : Contains(expanded, g)

\* C1: a node is shown in the tree iff every ancestor folder on its path
\* from the root is in the expansion state (root-level nodes always), and
\* the shown nodes keep their scan order.
C1_VisibleIffAncestorsExpanded ==
    shown_items(file_items, expanded_folders)
        = SelectSeq(file_items,
              LAMBDA item : AncestorsExpanded(item, expanded_folders))

path_a == <<"a">>
path_a_a == <<"a", sep, "a">>
path_ab == <<"a", "b">>

\* C2: toggle_folder(p) on an expansion state that holds p removes p and
\* the members strictly below p and nothing else; on a state that does not
\* hold p it adds p and changes nothing else.  Hence after expand a,
\* expand a/a, collapse a, expand a, the path a/a is not expanded.
C2_Toggle ==
    /\ last.op = "toggle_folder" =>
           IF Contains(last.before, last.arg)
           THEN expanded_folders
                    = SelectSeq(last.before,
                          LAMBDA f : f # last.arg
                                     /\ ~StrictDescendant(f, last.arg))
           ELSE expanded_folders = last.before \o <<last.arg>>
    /\ ~Contains(
           toggle_folder_result(
               toggle_folder_result(
                   toggle_folder_result(
                       toggle_folder_result(<< >>, path_a), path_a_a),
                   path_a),
               path_a),
           path_a_a)

\* Folder a has been collapsed while a/a and ab were expanded: ab stays.
C2_Witness ==
    /\ last.op = "toggle_folder"
    /\ last.arg = path_a
    /\ last.ret = "collapsed"
    /\ Contains(last.before, path_a_a)
    /\ Contains(last.before, path_ab)
    /\ Contains(expanded_folders, path_ab)

\* The members of S strictly below p.
Below(S, p) == {f \in Range(S) : StrictDescendant(f, p)}

\* C3 as stated: toggling p twice restores the membership of S, except
\* that when the first toggle is a collapse the members strictly below p
\* are absent; when p is not in S the result equals S.
C3_AsStated ==
    (last.op = "toggle_folder" /\ last.twice) =>
        IF Contains(last.prior, last.arg)
        THEN Range(expanded_folders)
                 = Range(last.prior) \ Below(last.prior, last.arg)
        ELSE Range(expanded_folders) = Range(last.prior)

\* C3, amended: toggling p twice restores the membership of S except that
\* the members of S strictly below p are absent afterwards, whether the
\* first toggle collapses or expands; the result has the members of S when
\* S holds nothing strictly below p.
C3_ToggleTwice ==
    (last.op = "toggle_folder" /\ last.twice) =>
        Range(expanded_folders)
            = Range(last.prior) \ Below(last.prior, last.arg)

\* Folder a has been collapsed and expanded again, a/a was expanded before.
C3_Witness ==
    /\ last.op = "toggle_folder"
    /\ last.twice
    /\ last.arg = path_a
    /\ last.ret = "expanded"
    /\ Contains(last.prior, path_a_a)
    /\ Contains(last.prior, path_ab)
    /\ ~Contains(expanded_folders, path_a_a)

\* C10: when only shown folders are toggled, expanded_folders is
\* ancestor-closed and holds no path twice, so the direct-parent test of
\* is_item_visible shows exactly the nodes all of whose ancestors are
\* expanded.
C10_AncestorClosed ==
    /\ \A i \in 1..Len(expanded_folders) :
           \A g \in Ancestors(expanded_folders[i]) :
               Contains(expanded_folders, g)
    /\ \A i, j \in 1..Len(expanded_folders) :
           i # j => expanded_folders[i] # expanded_folders[j]
    /\ \A i \in 1..Len(file_items) :
           is_item_visible(file_items[i], expanded_folders)
               <=> AncestorsExpanded(file_items[i], expanded_folders)

\* A nested folder is expanded under its expanded parent, after the tree
\* has been scanned again, and a file two folders deep is shown.
C10_Witness ==
    /\ Contains(expanded_folders, path_a)
    /\ Contains(expanded_folders, path_a_a)
    /\ Scanned
    /\ \E i \in 1..Len(file_items) :
           /\ file_items[i].level = 2
           /\ is_item_visible(file_items[i], expanded_folders)

----------------------------------------------------------------------------
(* Properties of process_image and select_image.                           *)

\* a & b on naturals
RECURSIVE BitAnd(_, _)
BitAnd(a, b) ==
    IF a = 0 \/ b = 0 THEN 0
    ELSE (a % 2) * (b % 2) + 2 * BitAnd(a \div 2, b \div 2)

\* The pixels of the selected image as they are after normalization and
\* resampling: RGB, or RGBA when the file has alpha.
ResizedPixel ==
    LET img == FileContent(path_join(texture_directory, selected_image),
                           disk.shade).image
    IN  IF img.mode \in {"RGB", "RGBA"} THEN img.pixel
        ELSE convert_RGB(img).pixel

\* process_image has just produced an image with color depth 16.
Processed16 ==
    /\ last.op = "process_image"
    /\ last.ret = None
    /\ color_depth = 16

\* C6: with color depth 16 process_image gives every resized pixel red and
\* blue value & 0xF8 and green value & 0xFC, and an alpha channel of the
\* source passes through unaffected.
C6_Quantize16 ==
    Processed16 =>
        LET out == processed_image_data[2].pixel
            src == ResizedPixel
        IN  /\ out[1] = BitAnd(src[1], 248)
            /\ out[2] = BitAnd(src[2], 252)
            /\ out[3] = BitAnd(src[3], 248)
            /\ Len(src) = 4 => (Len(out) = 4 /\ out[4] = src[4])

\* The colour channels alone: red and blue are value & 0xF8, green is
\* value & 0xFC, for every value 0..255 (this part of C6 holds).
C6_ChannelMasks ==
    Processed16 =>
        LET out == processed_image_data[2].pixel
            src == ResizedPixel
        IN  /\ out[1] = BitAnd(src[1], 248)
            /\ out[2] = BitAnd(src[2], 252)
            /\ out[3] = BitAnd(src[3], 248)

\* C7: for every color depth and both values of dithering, the image
\* process_image hands to the PNG encoder is in RGB or RGBA form, never
\* palette-indexed.
C7_EncodedAsRGB ==
    (last.op = "process_image" /\ last.ret = None) =>
        processed_image_data[2].mode \in {"RGB", "RGBA"}

\* C8: whenever select_image fails at any step, afterwards
\* selected_image_data, image_format, image_resolution and image_file_size
\* are empty and image_width and image_height are 0, and the failure is not
\* raised to the caller.
C8_FailedSelectClears ==
    (last.op = "select_image" /\ last.exc # "") =>
        /\ selected_image_data = << >>
        /\ image_format = << >>
        /\ image_resolution = << >>
        /\ image_file_size = << >>
        /\ image_width = 0
        /\ image_height = 0
        /\ last.ret = None

\* select_image has failed at open(), after it had written the size, the
\* format and the resolution.
C8_Witness ==
    /\ last.op = "select_image"
    /\ last.exc = "open"
    /\ selected_image # << >>
    /\ image_file_size = << >>
    /\ image_width = 0

\* C9: where resize_width <= 0 or resize_height <= 0, process_image ends in
\* the failure outcome, produces no processed image and leaves
\* processed_image_data and show_processed as they were before the call.
C9_NonPositiveSizeFails ==
    [][(last'.op = "process_image"
            /\ (resize_width <= 0 \/ resize_height <= 0))
        => /\ last'.ret # None
           /\ processed_image_data' = processed_image_data
           /\ show_processed' = show_processed]_vars

\* process_image has failed in resize on a width typed as 0 or -8, and the
\* preview of an earlier call is still held and shown.
C9_Witness ==
    /\ last.op = "process_image"
    /\ last.exc = "resize"
    /\ resize_width <= 0
    /\ processed_image_data # << >>
    /\ show_processed

\* C11: after any sequence of load_images, update_directory,
\* go_up_directory and toggle_folder events, every path in expanded_folders
\* is the path of a Folder node of the current file_items.
C11_ExpandedAreFolders ==
    \A i \in 1..Len(expanded_folders) :
        expanded_folders[i] \in FolderPaths(file_items)

\* C12: in every reachable state show_processed is true only if
\* processed_image_data is non-empty and was produced by process_image from
\* the currently selected image in the current texture_directory.
C12_PreviewOfSelection ==
    show_processed =>
        /\ processed_image_data # << >>
        /\ processed_from = <<texture_directory, selected_image>>

====
